---- MODULE Spec2Model ----
(***************************************************************************)
(* Model of command.Command.Start (src/command/command.go): a child        *)
(* process whose standard input is fed from a channel by a relay goroutine *)
(* and whose standard output / standard error are scanned into lines by    *)
(* two relay goroutines that hand each line to a channel or echo it to the *)
(* parent's own stream.                                                    *)
(*                                                                         *)
(* Bytes are modelled as one-character strings, a line or a stdin item as  *)
(* a sequence of bytes.  The processes of the model are the caller, the    *)
(* child, the context, the stdin relay and the two output relays.          *)
(***************************************************************************)
EXTENDS Integers, Sequences, FiniteSets, TLC

\* ------------------------------------------------------------------ bounds
\* Longest byte string a child of kind "echo" writes to stdout.
MaxOut == 3
\* Longest byte string a child of kind "echo" writes to stderr.
MaxErr == 1
\* Largest number of items the caller has ready for the Stdin channel.
MaxIn == 2
\* Capacity, in bytes, of each OS pipe between parent and child.
PipeCap == 1
\* Scale model of bufio.MaxScanTokenSize (64 * 1024 in the Go library): the
\* size of the scanner's buffer, a line that fills it cannot be decoded.
MaxTok == 2
\* Largest number of items the caller of the README's example sends.
MaxLines == 4

\* ------------------------------------------------------------ vocabulary
NL == "\n"
CR == "\r"
Streams == {"stdout", "stderr"}
Bytes == {"a", NL}
\* The items the caller may send on the Stdin channel: a terminated line, and
\* bytes without a terminator (two bytes of them fill the scanner's buffer).
Items == {<<"a", NL>>, <<"a", "a">>, <<"a">>}

RECURSIVE SeqsUpTo(_, _)
SeqsUpTo(S, n) ==
  IF n = 0 THEN {<<>>}
  ELSE LET shorter == SeqsUpTo(S, n - 1)
       IN  shorter \cup {Append(q, x) : q \in {r \in shorter : Len(r) = n - 1}, x \in S}

IsPrefix(p, q) == Len(p) <= Len(q) /\ SubSeq(q, 1, Len(p)) = p

Drop(q, n) == SubSeq(q, n + 1, Len(q))

Min(a, b) == IF a < b THEN a ELSE b

RECURSIVE Concat(_)
Concat(qs) == IF qs = <<>> THEN <<>> ELSE Head(qs) \o Concat(Tail(qs))

\* --------------------------------------------------------------- variables
VARIABLES
  c,          \* the Command: which of Stdin, Stdout, Stderr are non-nil
  prog,       \* the executable c.Name resolves to: its kind and what it writes
  ctxCancels, \* whether the context given to Start can ever be canceled
  startRes,   \* "none" before Start, then "ok" or "error"
  startErr,   \* the error Start returned ("nil" if none)
  child,      \* "none", "running", "exited" (status 0) or "killed"
  written,    \* per stream: the bytes the child has written so far
  pipe,       \* per stream: the bytes in the OS pipe, not yet read
  rdClosed,   \* per stream: the parent's read end has been closed (by Wait)
  inPipe,     \* the bytes in the stdin pipe, not yet read by the child
  pwClosed,   \* the parent's write end of the stdin pipe has been closed
  childIn,    \* the bytes the child has read from its standard input
  childEOF,   \* the child has observed end of input
  rpc,        \* per stream: position of the output relay ("none", "scan", "send", "done")
  sbuf,       \* per stream: the scanner's buffered, not yet tokenised bytes
  serr,       \* per stream: the scanner's sticky error ("nil", "EOF", "ErrClosed", "ErrTooLong")
  line,       \* per stream: the line the relay is handing to its channel
  received,   \* per stream: the lines the caller has received from the channel
  closeCount, \* per stream: how many times the channel has been closed
  sentClosed, \* per stream: a line was sent on the channel after its closure
  sawClosed,  \* per stream: a receive returned the closed indication
  echoed,     \* per stream: the bytes written to the parent's os.Stdout / os.Stderr
  ipc,        \* position of the stdin relay ("none", "range", "write", "done")
  idata,      \* the bytes of the current item not yet written to the pipe
  inWritten,  \* the bytes the stdin relay has written to the pipe
  wrRes,      \* outcome of the last stdin.Write / stdin.Close ("none", "ok", "err", "short")
  inCloses,   \* how many times the stdin relay has called stdin.Close
  toSend,     \* the items the caller still intends to send on Stdin
  sent,       \* the items the caller has sent on Stdin
  srcClosed,  \* the caller has closed the Stdin channel
  wait,       \* the caller's cmd.Wait: "no", "waiting", "ok" (nil) or "err"
  cancelled,  \* the context has been canceled
  fault       \* "none", or the panic that terminated the program

procVars  == <<c, prog, ctxCancels, startRes, startErr, child, cancelled, fault, wait>>
outVars   == <<written, pipe, rdClosed, rpc, sbuf, serr, line, received,
               closeCount, sentClosed, sawClosed, echoed>>
inVars    == <<inPipe, pwClosed, childIn, childEOF, ipc, idata, inWritten,
               wrRes, inCloses, toSend, sent, srcClosed>>
vars == <<procVars, outVars, inVars>>

\* The program is alive: no goroutine has panicked.
Running == fault = "none"

\* c.Stdout / c.Stderr is non-nil.
HasSink(s) == IF s = "stdout" THEN c.Stdout ELSE c.Stderr

ChildAlive == child = "running"
ChildGone  == child \in {"exited", "killed"}

\* ------------------------------------------------- bufio.Scanner, ScanLines
\* Index of the first line terminator of data, 0 when there is none.
IndexNL(data) ==
  IF \E i \in 1..Len(data) : data[i] = NL
  THEN CHOOSE i \in 1..Len(data) : data[i] = NL /\ \A j \in 1..(i - 1) : data[j] # NL
  ELSE 0

\* bufio.dropCR: a trailing carriage return is not part of the line.
dropCR(data) ==
  IF Len(data) > 0 /\ data[Len(data)] = CR THEN SubSeq(data, 1, Len(data) - 1) ELSE data

\* bufio.ScanLines, the split function of bufio.NewScanner: the next token of
\* data, how far to advance, and whether there is a token at all.
ScanLines(data, atEOF) ==
  LET i == IndexNL(data)
  IN  IF atEOF /\ Len(data) = 0 THEN [advance |-> 0, token |-> <<>>, has |-> FALSE]
      ELSE IF i > 0 THEN [advance |-> i, token |-> dropCR(SubSeq(data, 1, i - 1)), has |-> TRUE]
      ELSE IF atEOF THEN [advance |-> Len(data), token |-> dropCR(data), has |-> TRUE]
      ELSE [advance |-> 0, token |-> <<>>, has |-> FALSE]

\* What s.Scan() can split from the buffered bytes of stream s right now (the
\* split function is only asked when there are bytes or a sticky error).
Split(s) ==
  IF sbuf[s] # <<>> \/ serr[s] # "nil"
  THEN ScanLines(sbuf[s], serr[s] # "nil")
  ELSE [advance |-> 0, token |-> <<>>, has |-> FALSE]

\* ---------------------------------------------------------------- Init
\* The programs c.Name may resolve to.  "echo" writes its two scripts and
\* exits without reading its input; "cat" copies its input to its output
\* until end of input, then exits.  Both streams are read by the same code:
\* the scripts for stdout are all byte strings, those for stderr are empty
\* lines only.
EchoProgs ==
  {[kind |-> "echo", out |-> [stdout |-> o, stderr |-> e]] :
     o \in SeqsUpTo(Bytes, MaxOut), e \in SeqsUpTo({NL}, MaxErr)}
CatProgs == {[kind |-> "cat", out |-> [stdout |-> <<>>, stderr |-> <<>>]]}

\* Before Start is called: no process, no pipe, no goroutine, nothing sent
\* or received.
Unstarted ==
  /\ startRes = "none" /\ startErr = "nil" /\ child = "none"
  /\ written = [s \in Streams |-> <<>>]
  /\ pipe = [s \in Streams |-> <<>>]
  /\ rdClosed = [s \in Streams |-> FALSE]
  /\ inPipe = <<>> /\ pwClosed = FALSE /\ childIn = <<>> /\ childEOF = FALSE
  /\ rpc = [s \in Streams |-> "none"]
  /\ sbuf = [s \in Streams |-> <<>>]
  /\ serr = [s \in Streams |-> "nil"]
  /\ line = [s \in Streams |-> <<>>]
  /\ received = [s \in Streams |-> <<>>]
  /\ closeCount = [s \in Streams |-> 0]
  /\ sentClosed = [s \in Streams |-> FALSE]
  /\ sawClosed = [s \in Streams |-> FALSE]
  /\ echoed = [s \in Streams |-> <<>>]
  /\ ipc = "none" /\ idata = <<>> /\ inWritten = <<>> /\ wrRes = "none" /\ inCloses = 0
  /\ sent = <<>> /\ srcClosed = FALSE
  /\ wait = "no" /\ cancelled = FALSE /\ fault = "none"

Init ==
  /\ c \in [Stdin : BOOLEAN, Stdout : BOOLEAN, Stderr : BOOLEAN]
  /\ prog \in IF c.Stdin
              THEN CatProgs \cup {p \in EchoProgs : p.out.stderr = <<>> /\ p.out.stdout \in {<<>>, <<NL>>}}
              ELSE EchoProgs
  \* what the items hold matters only to a child that reads them
  /\ toSend \in IF ~c.Stdin THEN {<<>>}
                ELSE IF prog.kind = "cat" THEN SeqsUpTo(Items, MaxIn)
                ELSE SeqsUpTo({<<"a", "a">>}, MaxIn)
  /\ ctxCancels \in BOOLEAN
  /\ Unstarted

\* ------------------------------------------------------- Command.Start
\* The step of Start that can fail: a pipe cannot be created, or cmd.Start
\* fails (for example c.Name is no executable).
FailPoints == {"StdinPipe", "StdoutPipe", "StderrPipe", "Start"}

\* The stdin goroutine is started (line 48) before the steps that follow
\* it can fail.
StdinRelaySpawned(outcome) == c.Stdin /\ outcome # "StdinPipe"

\* Start with the range over c.Stdin run by Start itself, not by a goroutine:
\* Start returns only once the caller has closed the channel.
Start_RangeInline ==
  /\ Running /\ startRes = "none"
  /\ c.Stdin => srcClosed
  /\ \E outcome \in {"ok"} \cup FailPoints :
       /\ outcome = "StdinPipe" => c.Stdin
       /\ startRes' = IF outcome = "ok" THEN "ok" ELSE "error"
       /\ startErr' = IF outcome = "ok" THEN "nil" ELSE outcome
       /\ child' = IF outcome = "ok" THEN "running" ELSE "none"
       /\ ipc' = IF StdinRelaySpawned(outcome) THEN "range" ELSE "none"
       /\ rpc' = [s \in Streams |-> IF outcome = "ok" THEN "scan" ELSE "none"]
       /\ pwClosed' = (outcome = "Start" /\ c.Stdin)
  /\ UNCHANGED <<c, prog, ctxCancels, cancelled, fault, wait>>
  /\ UNCHANGED <<written, pipe, rdClosed, sbuf, serr, line, received,
                 closeCount, sentClosed, sawClosed, echoed>>
  /\ UNCHANGED <<inPipe, childIn, childEOF, idata, inWritten, wrRes, inCloses,
                 toSend, sent, srcClosed>>

\* Start with the supplied channels closed on its error paths (so that a
\* caller ranging over them would not block).
Start_ClosesSinksOnError ==
  /\ Running /\ startRes = "none"
  /\ \E outcome \in {"ok"} \cup FailPoints :
       /\ outcome = "StdinPipe" => c.Stdin
       /\ startRes' = IF outcome = "ok" THEN "ok" ELSE "error"
       /\ startErr' = IF outcome = "ok" THEN "nil" ELSE outcome
       /\ child' = IF outcome = "ok" THEN "running" ELSE "none"
       /\ ipc' = IF StdinRelaySpawned(outcome) THEN "range" ELSE "none"
       /\ rpc' = [s \in Streams |-> IF outcome = "ok" THEN "scan" ELSE "none"]
       /\ pwClosed' = (outcome = "Start" /\ c.Stdin)
       /\ closeCount' = [s \in Streams |->
                           IF outcome # "ok" /\ HasSink(s) THEN 1 ELSE closeCount[s]]
  /\ UNCHANGED <<c, prog, ctxCancels, cancelled, fault, wait>>
  /\ UNCHANGED <<written, pipe, rdClosed, sbuf, serr, line, received,
                 sentClosed, sawClosed, echoed>>
  /\ UNCHANGED <<inPipe, childIn, childEOF, idata, inWritten, wrRes, inCloses,
                 toSend, sent, srcClosed>>

\* Start with read started only for a stream whose channel is non-nil (the
\* child's output on the other stream is left unread).
Start_ReadOnlyWithSink ==
  /\ Running /\ startRes = "none"
  /\ \E outcome \in {"ok"} \cup FailPoints :
       /\ outcome = "StdinPipe" => c.Stdin
       /\ startRes' = IF outcome = "ok" THEN "ok" ELSE "error"
       /\ startErr' = IF outcome = "ok" THEN "nil" ELSE outcome
       /\ child' = IF outcome = "ok" THEN "running" ELSE "none"
       /\ ipc' = IF StdinRelaySpawned(outcome) THEN "range" ELSE "none"
       /\ rpc' = [s \in Streams |-> IF outcome = "ok" /\ HasSink(s) THEN "scan" ELSE "none"]
       /\ pwClosed' = (outcome = "Start" /\ c.Stdin)
  /\ UNCHANGED <<c, prog, ctxCancels, cancelled, fault, wait>>
  /\ UNCHANGED <<written, pipe, rdClosed, sbuf, serr, line, received,
                 closeCount, sentClosed, sawClosed, echoed>>
  /\ UNCHANGED <<inPipe, childIn, childEOF, idata, inWritten, wrRes, inCloses,
                 toSend, sent, srcClosed>>

Start ==
  /\ Running /\ startRes = "none"
  /\ \E outcome \in {"ok"} \cup FailPoints :
       /\ outcome = "StdinPipe" => c.Stdin
       /\ startRes' = IF outcome = "ok" THEN "ok" ELSE "error"
       /\ startErr' = IF outcome = "ok" THEN "nil" ELSE outcome
       /\ child' = IF outcome = "ok" THEN "running" ELSE "none"
       /\ ipc' = IF StdinRelaySpawned(outcome) THEN "range" ELSE "none"
       /\ rpc' = [s \in Streams |-> IF outcome = "ok" THEN "scan" ELSE "none"]
       \* a failed cmd.Start closes the pipe ends the parent holds
       /\ pwClosed' = (outcome = "Start" /\ c.Stdin)
  /\ UNCHANGED <<c, prog, ctxCancels, cancelled, fault, wait>>
  /\ UNCHANGED <<written, pipe, rdClosed, sbuf, serr, line, received,
                 closeCount, sentClosed, sawClosed, echoed>>
  /\ UNCHANGED <<inPipe, childIn, childEOF, idata, inWritten, wrRes, inCloses,
                 toSend, sent, srcClosed>>

\* ------------------------------------------------------------ the child
\* The child writes the next byte of its script to stream s; it blocks
\* while the pipe is full.
ChildWrite(s) ==
  /\ ChildAlive
  /\ Len(written[s]) < Len(prog.out[s])
  /\ Len(pipe[s]) < PipeCap
  /\ LET b == prog.out[s][Len(written[s]) + 1]
     IN  /\ written' = [written EXCEPT ![s] = Append(@, b)]
         /\ pipe' = [pipe EXCEPT ![s] = Append(@, b)]
  /\ UNCHANGED <<procVars, inVars>>
  /\ UNCHANGED <<rdClosed, rpc, sbuf, serr, line, received, closeCount,
                 sentClosed, sawClosed, echoed>>

\* A "cat" child copies one byte of its input to its standard output.
ChildCopy ==
  /\ ChildAlive /\ prog.kind = "cat"
  /\ inPipe # <<>>
  /\ Len(pipe["stdout"]) < PipeCap
  /\ childIn' = Append(childIn, Head(inPipe))
  /\ inPipe' = Tail(inPipe)
  /\ written' = [written EXCEPT !["stdout"] = Append(@, Head(inPipe))]
  /\ pipe' = [pipe EXCEPT !["stdout"] = Append(@, Head(inPipe))]
  /\ UNCHANGED procVars
  /\ UNCHANGED <<rdClosed, rpc, sbuf, serr, line, received, closeCount,
                 sentClosed, sawClosed, echoed>>
  /\ UNCHANGED <<pwClosed, childEOF, ipc, idata, inWritten, wrRes, inCloses,
                 toSend, sent, srcClosed>>

\* The child's standard input is at end of input: nothing is connected to
\* it (c.Stdin is nil), or every write end is closed and the pipe is empty.
StdinAtEOF == inPipe = <<>> /\ (~c.Stdin \/ pwClosed)

\* The child exits by itself with status 0: it has written its scripts and,
\* if it is a "cat", has seen the end of its input.
ChildExit ==
  /\ ChildAlive
  /\ IF prog.kind = "cat"
     THEN StdinAtEOF
     ELSE \A s \in Streams : Len(written[s]) = Len(prog.out[s])
  /\ child' = "exited"
  /\ childEOF' = (prog.kind = "cat")
  /\ UNCHANGED <<c, prog, ctxCancels, startRes, startErr, cancelled, fault, wait>>
  /\ UNCHANGED outVars
  /\ UNCHANGED <<inPipe, pwClosed, childIn, ipc, idata, inWritten, wrRes,
                 inCloses, toSend, sent, srcClosed>>

\* ---------------------------------------------------------- the context
\* exec.CommandContext: canceling the context kills a child that still runs.
CtxCancel ==
  /\ Running /\ ctxCancels /\ startRes = "ok" /\ ~cancelled
  /\ cancelled' = TRUE
  /\ child' = IF ChildAlive THEN "killed" ELSE child
  /\ UNCHANGED <<c, prog, ctxCancels, startRes, startErr, fault, wait>>
  /\ UNCHANGED <<outVars, inVars>>

\* ------------------------------------------------- the output relay, read
\* close(ch), deferred by read when ch is non-nil.
CloseSink(s) == [closeCount EXCEPT ![s] = IF HasSink(s) THEN @ + 1 ELSE @]

\* RelayToken with close(ch) called in the loop body, after each line, instead
\* of deferred to the end of read.
RelayToken_CloseInLoop(s) ==
  /\ Running /\ rpc[s] = "scan"
  /\ Split(s).has
  /\ sbuf' = [sbuf EXCEPT ![s] = Drop(@, Split(s).advance)]
  /\ IF HasSink(s)
     THEN /\ line' = [line EXCEPT ![s] = Split(s).token]
          /\ rpc' = [rpc EXCEPT ![s] = "send"]
          /\ echoed' = echoed
     ELSE /\ echoed' = [echoed EXCEPT ![s] = @ \o Split(s).token \o <<NL>>]
          /\ UNCHANGED <<line, rpc>>
  /\ closeCount' = CloseSink(s)
  /\ UNCHANGED <<procVars, inVars>>
  /\ UNCHANGED <<written, pipe, rdClosed, serr, received, sentClosed, sawClosed>>

\* RelayToken with a send that does not block (a select with a default case):
\* with no receiver ready the line is dropped and the relay scans on.
RelayToken_NonBlockingSend(s) ==
  /\ Running /\ rpc[s] = "scan"
  /\ Split(s).has
  /\ sbuf' = [sbuf EXCEPT ![s] = Drop(@, Split(s).advance)]
  /\ IF HasSink(s)
     THEN UNCHANGED <<line, rpc, echoed>>
     ELSE /\ echoed' = [echoed EXCEPT ![s] = @ \o Split(s).token \o <<NL>>]
          /\ UNCHANGED <<line, rpc>>
  /\ UNCHANGED <<procVars, inVars>>
  /\ UNCHANGED <<written, pipe, rdClosed, serr, received, closeCount,
                 sentClosed, sawClosed>>

\* s.Scan() gets a token from the bytes it holds: the relay hands the line
\* to the channel (and blocks there until it is received), or writes it and
\* a line terminator to the parent's stream.
RelayToken(s) ==
  /\ Running /\ rpc[s] = "scan"
  /\ Split(s).has
  /\ sbuf' = [sbuf EXCEPT ![s] = Drop(@, Split(s).advance)]
  /\ IF HasSink(s)
     THEN /\ line' = [line EXCEPT ![s] = Split(s).token]
          /\ rpc' = [rpc EXCEPT ![s] = "send"]
          /\ echoed' = echoed
     ELSE /\ echoed' = [echoed EXCEPT ![s] = @ \o Split(s).token \o <<NL>>]
          /\ UNCHANGED <<line, rpc>>
  /\ UNCHANGED <<procVars, inVars>>
  /\ UNCHANGED <<written, pipe, rdClosed, serr, received, closeCount,
                 sentClosed, sawClosed>>

\* RelayRead with the end of file never seen while the read end is open (as
\* if the parent kept a write end of the pipe open itself): the read of an
\* empty pipe blocks although the child is gone.
RelayRead_NoEOF(s) ==
  /\ Running /\ rpc[s] = "scan"
  /\ ~Split(s).has /\ serr[s] = "nil" /\ Len(sbuf[s]) < MaxTok
  /\ IF rdClosed[s]
     THEN /\ serr' = [serr EXCEPT ![s] = "ErrClosed"]
          /\ UNCHANGED <<sbuf, pipe>>
     ELSE /\ pipe[s] # <<>>
          /\ LET n == Min(Len(pipe[s]), MaxTok - Len(sbuf[s]))
             IN  /\ sbuf' = [sbuf EXCEPT ![s] = @ \o SubSeq(pipe[s], 1, n)]
                 /\ pipe' = [pipe EXCEPT ![s] = Drop(@, n)]
                 /\ serr' = serr
  /\ UNCHANGED <<procVars, inVars>>
  /\ UNCHANGED <<written, rdClosed, rpc, line, received, closeCount,
                 sentClosed, sawClosed, echoed>>

\* s.Scan() has no token and room in its buffer, so it reads: bytes of the
\* pipe, end of file once the child is gone and the pipe is empty, or an
\* error once cmd.Wait has closed the read end (the unread bytes are lost).
\* It blocks while the pipe is empty and the child lives.
RelayRead(s) ==
  /\ Running /\ rpc[s] = "scan"
  /\ ~Split(s).has /\ serr[s] = "nil" /\ Len(sbuf[s]) < MaxTok
  /\ IF rdClosed[s]
     THEN /\ serr' = [serr EXCEPT ![s] = "ErrClosed"]
          /\ UNCHANGED <<sbuf, pipe>>
     ELSE IF pipe[s] # <<>>
     THEN LET n == Min(Len(pipe[s]), MaxTok - Len(sbuf[s]))
          IN  /\ sbuf' = [sbuf EXCEPT ![s] = @ \o SubSeq(pipe[s], 1, n)]
              /\ pipe' = [pipe EXCEPT ![s] = Drop(@, n)]
              /\ serr' = serr
     ELSE /\ ChildGone
          /\ serr' = [serr EXCEPT ![s] = "EOF"]
          /\ UNCHANGED <<sbuf, pipe>>
  /\ UNCHANGED <<procVars, inVars>>
  /\ UNCHANGED <<written, rdClosed, rpc, line, received, closeCount,
                 sentClosed, sawClosed, echoed>>

\* s.Scan() returns false: after end of file or a read error with nothing
\* left to split, or because the buffer is full without a line terminator
\* (bufio.ErrTooLong).  s.Err() is not looked at: the loop ends, the
\* deferred close runs and the goroutine terminates.
RelayFinish(s) ==
  /\ Running /\ rpc[s] = "scan"
  /\ ~Split(s).has
  /\ serr[s] # "nil" \/ Len(sbuf[s]) >= MaxTok
  /\ serr' = [serr EXCEPT ![s] = IF @ = "nil" THEN "ErrTooLong" ELSE @]
  /\ closeCount' = CloseSink(s)
  /\ rpc' = [rpc EXCEPT ![s] = "done"]
  /\ UNCHANGED <<procVars, inVars>>
  /\ UNCHANGED <<written, pipe, rdClosed, sbuf, line, received, sentClosed,
                 sawClosed, echoed>>

\* ch <- line meets the caller's receive (the channel is unbuffered).
CallerRecv(s) ==
  /\ Running /\ rpc[s] = "send"
  /\ received' = [received EXCEPT ![s] = Append(@, line[s])]
  /\ sentClosed' = [sentClosed EXCEPT ![s] = @ \/ closeCount[s] > 0]
  /\ rpc' = [rpc EXCEPT ![s] = "scan"]
  /\ UNCHANGED <<procVars, inVars>>
  /\ UNCHANGED <<written, pipe, rdClosed, sbuf, serr, line, closeCount,
                 sawClosed, echoed>>

\* A receive on the closed channel returns at once with ok = false.
CallerRecvClosed(s) ==
  /\ Running /\ startRes = "ok" /\ HasSink(s)
  /\ closeCount[s] > 0 /\ rpc[s] # "send" /\ ~sawClosed[s]
  /\ sawClosed' = [sawClosed EXCEPT ![s] = TRUE]
  /\ UNCHANGED <<procVars, inVars>>
  /\ UNCHANGED <<written, pipe, rdClosed, rpc, sbuf, serr, line, received,
                 closeCount, sentClosed, echoed>>

\* ------------------------------------------------------ the stdin relay
\* The two checks after stdin.Write: the panic they raise, "none" if none.
WriteFault(n, err, want) ==
  IF err THEN "cannot write stdin"
  ELSE IF n # want THEN "wrote n bytes, want m"
  ELSE "none"

\* The item the relay is writing, and how much of it is in the pipe.
CurItem == sent[Len(sent)]
CurDone == Len(CurItem) - Len(idata)

\* stdin.Write fails when the write end is already closed (os.ErrClosed) or
\* the child, the only reader, is gone (EPIPE).
WriteFails == pwClosed \/ ChildGone

\* c.Stdin <- line by the caller meets the relay's range (the channel is
\* unbuffered): the relay now holds the item and calls stdin.Write.
CallerSend ==
  /\ Running /\ ipc = "range"
  /\ ~srcClosed /\ toSend # <<>>
  /\ idata' = Head(toSend)
  /\ sent' = Append(sent, Head(toSend))
  /\ toSend' = Tail(toSend)
  /\ ipc' = "write"
  /\ UNCHANGED <<procVars, outVars>>
  /\ UNCHANGED <<inPipe, pwClosed, childIn, childEOF, inWritten, wrRes,
                 inCloses, srcClosed>>

\* StdinWrite with the error of stdin.Write ignored: the relay drops the
\* item and goes on to the next one.
StdinWrite_ErrorIgnored ==
  /\ Running /\ ipc = "write"
  /\ IF WriteFails
     THEN /\ wrRes' = "err"
          /\ idata' = <<>>
          /\ ipc' = "range"
          /\ UNCHANGED <<inPipe, inWritten, fault>>
     ELSE LET n == Min(Len(idata), PipeCap - Len(inPipe))
          IN  /\ n > 0
              /\ inPipe' = inPipe \o SubSeq(idata, 1, n)
              /\ inWritten' = inWritten \o SubSeq(idata, 1, n)
              /\ idata' = Drop(idata, n)
              /\ IF n = Len(idata)
                 THEN /\ wrRes' = "ok"
                      /\ fault' = WriteFault(Len(CurItem), FALSE, Len(CurItem))
                      /\ ipc' = "range"
                 ELSE UNCHANGED <<wrRes, fault, ipc>>
  /\ UNCHANGED <<c, prog, ctxCancels, startRes, startErr, child, cancelled, wait>>
  /\ UNCHANGED outVars
  /\ UNCHANGED <<pwClosed, childIn, childEOF, inCloses, toSend, sent, srcClosed>>

\* StdinWrite with a line terminator written after each item (as
\* fmt.Fprintln(stdin, line) would).
StdinWrite_AppendsNewline ==
  /\ Running /\ ipc = "write"
  /\ IF WriteFails
     THEN /\ wrRes' = "err"
          /\ fault' = WriteFault(CurDone, TRUE, Len(CurItem))
          /\ UNCHANGED <<inPipe, inWritten, idata, ipc>>
     ELSE LET n == Min(Len(idata), PipeCap - Len(inPipe))
          IN  /\ n > 0
              /\ idata' = Drop(idata, n)
              /\ IF n = Len(idata)
                 THEN /\ inPipe' = inPipe \o SubSeq(idata, 1, n) \o <<NL>>
                      /\ inWritten' = inWritten \o SubSeq(idata, 1, n) \o <<NL>>
                      /\ wrRes' = "ok"
                      /\ fault' = WriteFault(Len(CurItem), FALSE, Len(CurItem))
                      /\ ipc' = "range"
                 ELSE /\ inPipe' = inPipe \o SubSeq(idata, 1, n)
                      /\ inWritten' = inWritten \o SubSeq(idata, 1, n)
                      /\ UNCHANGED <<wrRes, fault, ipc>>
  /\ UNCHANGED <<c, prog, ctxCancels, startRes, startErr, child, cancelled, wait>>
  /\ UNCHANGED outVars
  /\ UNCHANGED <<pwClosed, childIn, childEOF, inCloses, toSend, sent, srcClosed>>

\* stdin.Write(data) and the checks of its result.  The write moves what
\* fits into the pipe and blocks for the rest; it returns when all of data
\* is written, or with an error and the count written so far.
StdinWrite ==
  /\ Running /\ ipc = "write"
  /\ IF WriteFails
     THEN /\ wrRes' = "err"
          /\ fault' = WriteFault(CurDone, TRUE, Len(CurItem))
          /\ UNCHANGED <<inPipe, inWritten, idata, ipc>>
     ELSE LET n == Min(Len(idata), PipeCap - Len(inPipe))
          IN  /\ n > 0
              /\ inPipe' = inPipe \o SubSeq(idata, 1, n)
              /\ inWritten' = inWritten \o SubSeq(idata, 1, n)
              /\ idata' = Drop(idata, n)
              /\ IF n = Len(idata)
                 THEN /\ wrRes' = "ok"
                      /\ fault' = WriteFault(Len(CurItem), FALSE, Len(CurItem))
                      /\ ipc' = "range"
                 ELSE UNCHANGED <<wrRes, fault, ipc>>
  /\ UNCHANGED <<c, prog, ctxCancels, startRes, startErr, child, cancelled, wait>>
  /\ UNCHANGED outVars
  /\ UNCHANGED <<pwClosed, childIn, childEOF, inCloses, toSend, sent, srcClosed>>

\* What stdin.Close can return.  Closing the open write end succeeds.  When
\* cmd.Wait or a failed cmd.Start has closed it already, the result depends
\* on the Go release the program is built with: the once-only wrapper of
\* older releases returns the first close's nil, the plain *os.File of
\* later ones returns os.ErrClosed.
CloseResults == IF pwClosed THEN {"ok", "err"} ELSE {"ok"}

\* StdinClose with the pipe closed as soon as no item is waiting (a receive
\* that does not block), not when the caller has closed the channel.
StdinClose_NotWaiting ==
  /\ Running /\ ipc = "range"
  /\ inCloses' = inCloses + 1
  /\ pwClosed' = TRUE
  /\ \E r \in CloseResults :
       /\ wrRes' = r
       /\ fault' = IF r = "err" THEN "cannot close stdin" ELSE "none"
       /\ ipc' = IF r = "err" THEN ipc ELSE "done"
  /\ UNCHANGED <<c, prog, ctxCancels, startRes, startErr, child, cancelled, wait>>
  /\ UNCHANGED outVars
  /\ UNCHANGED <<inPipe, childIn, childEOF, idata, inWritten, toSend, sent, srcClosed>>

\* StdinClose with stdin.Close() left out: the relay terminates when the
\* caller has closed the channel, the pipe stays open.
StdinClose_PipeLeftOpen ==
  /\ Running /\ ipc = "range" /\ srcClosed
  /\ ipc' = "done"
  /\ UNCHANGED <<c, prog, ctxCancels, startRes, startErr, child, cancelled, wait, fault>>
  /\ UNCHANGED outVars
  /\ UNCHANGED <<inPipe, pwClosed, childIn, childEOF, idata, inWritten, wrRes,
                 inCloses, toSend, sent, srcClosed>>

\* The range over c.Stdin ends because the caller closed the channel: the
\* relay closes the pipe, panics if that fails, and terminates.
StdinClose ==
  /\ Running /\ ipc = "range" /\ srcClosed
  /\ inCloses' = inCloses + 1
  /\ pwClosed' = TRUE
  /\ \E r \in CloseResults :
       /\ wrRes' = r
       /\ fault' = IF r = "err" THEN "cannot close stdin" ELSE "none"
       /\ ipc' = IF r = "err" THEN ipc ELSE "done"
  /\ UNCHANGED <<c, prog, ctxCancels, startRes, startErr, child, cancelled, wait>>
  /\ UNCHANGED outVars
  /\ UNCHANGED <<inPipe, childIn, childEOF, idata, inWritten, toSend, sent, srcClosed>>

\* ------------------------------------------------------------ the caller
\* close(stdinCh) by the caller, any time after Start has returned.
CallerClose ==
  /\ Running /\ c.Stdin /\ startRes # "none" /\ ~srcClosed
  /\ srcClosed' = TRUE
  /\ UNCHANGED <<procVars, outVars>>
  /\ UNCHANGED <<inPipe, pwClosed, childIn, childEOF, ipc, idata, inWritten,
                 wrRes, inCloses, toSend, sent>>

\* The caller calls cmd.Wait() on the handle Start returned.
WaitCall ==
  /\ Running /\ startRes = "ok" /\ wait = "no"
  /\ wait' = "waiting"
  /\ UNCHANGED <<c, prog, ctxCancels, startRes, startErr, child, cancelled, fault>>
  /\ UNCHANGED <<outVars, inVars>>

\* cmd.Wait() returns once the child is gone: it closes the pipe ends the
\* parent holds (os/exec: "Wait will close the pipe after seeing the command
\* exit") and yields nil for exit status 0, an error otherwise.
WaitReturn ==
  /\ Running /\ wait = "waiting" /\ ChildGone
  /\ wait' = IF child = "exited" THEN "ok" ELSE "err"
  /\ rdClosed' = [s \in Streams |-> TRUE]
  /\ pwClosed' = (pwClosed \/ c.Stdin)
  /\ UNCHANGED <<c, prog, ctxCancels, startRes, startErr, child, cancelled, fault>>
  /\ UNCHANGED <<written, pipe, rpc, sbuf, serr, line, received, closeCount,
                 sentClosed, sawClosed, echoed>>
  /\ UNCHANGED <<inPipe, childIn, childEOF, ipc, idata, inWritten, wrRes,
                 inCloses, toSend, sent, srcClosed>>

\* ------------------------------------------------------- specification
Next ==
  \/ Start
  \/ \E s \in Streams : ChildWrite(s)
  \/ ChildCopy
  \/ ChildExit
  \/ CtxCancel
  \/ \E s \in Streams : RelayToken(s)
  \/ \E s \in Streams : RelayRead(s)
  \/ \E s \in Streams : RelayFinish(s)
  \/ \E s \in Streams : CallerRecv(s)
  \/ \E s \in Streams : CallerRecvClosed(s)
  \/ CallerSend
  \/ StdinWrite
  \/ StdinClose
  \/ CallerClose
  \/ WaitCall
  \/ WaitReturn

Spec == Init /\ [][Next]_vars

\* The goroutines and the child are scheduled, cmd.Wait returns when it
\* can, and the caller keeps receiving from the channels it supplied; when
\* the caller starts, sends, closes, waits or cancels is up to the caller.
Fairness ==
  /\ \A s \in Streams : WF_vars(ChildWrite(s))
  /\ WF_vars(ChildCopy)
  /\ WF_vars(ChildExit)
  /\ \A s \in Streams : WF_vars(RelayToken(s))
  /\ \A s \in Streams : WF_vars(RelayRead(s))
  /\ \A s \in Streams : WF_vars(RelayFinish(s))
  /\ \A s \in Streams : WF_vars(CallerRecv(s))
  /\ \A s \in Streams : WF_vars(CallerRecvClosed(s))
  /\ WF_vars(StdinWrite)
  /\ WF_vars(StdinClose)
  /\ WF_vars(WaitReturn)

LiveSpec == Spec /\ Fairness

\* As Fairness, but the caller need not receive from the stdout channel: it
\* may leave the stdout relay blocked in its send for ever.
FairnessStalled ==
  /\ \A s \in Streams : WF_vars(ChildWrite(s))
  /\ WF_vars(ChildCopy)
  /\ WF_vars(ChildExit)
  /\ \A s \in Streams : WF_vars(RelayToken(s))
  /\ \A s \in Streams : WF_vars(RelayRead(s))
  /\ \A s \in Streams : WF_vars(RelayFinish(s))
  /\ WF_vars(CallerRecv("stderr"))
  /\ WF_vars(CallerRecvClosed("stderr"))
  /\ WF_vars(StdinWrite)
  /\ WF_vars(StdinClose)
  /\ WF_vars(WaitReturn)

StalledSpec == Spec /\ FairnessStalled

\* ------------------------------------- the caller of the README's example
\* The advanced example of the README: Stdin and Stdout are supplied, Stderr
\* is nil, the context is context.Background(), and the program echoes its
\* input.  The caller runs its statements one after the other: it sends
\* every item, closes the Stdin channel, ranges over the Stdout channel until
\* it is closed, and calls cmd.Wait().
ReadmeInit ==
  /\ c = [Stdin |-> TRUE, Stdout |-> TRUE, Stderr |-> FALSE]
  /\ prog \in CatProgs
  /\ toSend \in SeqsUpTo(Items, MaxLines)
  /\ ctxCancels = FALSE
  /\ Unstarted

ReadmeSend == startRes = "ok" /\ CallerSend
ReadmeClose == startRes = "ok" /\ toSend = <<>> /\ CallerClose
ReadmeRecv == srcClosed /\ CallerRecv("stdout")
ReadmeRecvClosed == srcClosed /\ CallerRecvClosed("stdout")
ReadmeWait == sawClosed["stdout"] /\ WaitCall

ReadmeNext ==
  \/ Start
  \/ ChildCopy
  \/ ChildExit
  \/ \E s \in Streams : RelayToken(s)
  \/ \E s \in Streams : RelayRead(s)
  \/ \E s \in Streams : RelayFinish(s)
  \/ StdinWrite
  \/ StdinClose
  \/ ReadmeSend
  \/ ReadmeClose
  \/ ReadmeRecv
  \/ ReadmeRecvClosed
  \/ ReadmeWait
  \/ WaitReturn

\* Every goroutine, the child and the caller take their next step when they
\* can.
ReadmeFairness ==
  /\ WF_vars(ChildCopy) /\ WF_vars(ChildExit)
  /\ \A s \in Streams : WF_vars(RelayToken(s)) /\ WF_vars(RelayRead(s)) /\ WF_vars(RelayFinish(s))
  /\ WF_vars(StdinWrite) /\ WF_vars(StdinClose)
  /\ WF_vars(ReadmeSend) /\ WF_vars(ReadmeClose) /\ WF_vars(ReadmeRecv)
  /\ WF_vars(ReadmeRecvClosed) /\ WF_vars(ReadmeWait) /\ WF_vars(WaitReturn)

ReadmeSpec == ReadmeInit /\ [][ReadmeNext]_vars /\ ReadmeFairness

\* ------------------------------------------------------------ the claims
\* The lines of a byte string: every terminated line without its terminator,
\* and a last unterminated fragment if there is one.
RECURSIVE LinesOf(_)
LinesOf(b) ==
  IF b = <<>> THEN <<>>
  ELSE IF IndexNL(b) = 0 THEN <<b>>
  ELSE <<SubSeq(b, 1, IndexNL(b) - 1)>> \o LinesOf(Drop(b, IndexNL(b)))

\* The lines, each followed by a line terminator.
RECURSIVE Terminated(_)
Terminated(ls) == IF ls = <<>> THEN <<>> ELSE Head(ls) \o <<NL>> \o Terminated(Tail(ls))

SinkClosed(s) == closeCount[s] > 0

\* C1: with a sink supplied and drained until it is closed (cmd.Wait not
\* having cut the relay's reads short), the lines received are at every
\* moment a prefix of the lines the child wrote to that stream, and once the
\* sink is closed they are all of them.
C1_SinkReceivesEveryLine ==
  \A s \in Streams :
    (startRes = "ok" /\ HasSink(s)) =>
      /\ IsPrefix(received[s], LinesOf(written[s]))
      /\ (SinkClosed(s) /\ serr[s] # "ErrClosed") => received[s] = LinesOf(written[s])

\* C2: each supplied sink is closed exactly once, by its own relay task when
\* that task ends, however the child ended; no line is sent on a closed
\* sink; a receive on the closed sink returns the closed indication at once.
C2_SinkClosedExactlyOnce ==
  \A s \in Streams :
    /\ closeCount[s] <= 1
    /\ ~sentClosed[s]
    /\ rpc[s] = "send" => ~SinkClosed(s)
    /\ SinkClosed(s) <=> (HasSink(s) /\ rpc[s] = "done")
    /\ (SinkClosed(s) /\ Running /\ ~sawClosed[s]) => ENABLED CallerRecvClosed(s)

\* A sink that delivered a line was closed after the child was killed, and
\* the caller has seen the closure.
C2_Witness ==
  \E s \in Streams :
    /\ child = "killed" /\ closeCount[s] = 1 /\ sawClosed[s]
    /\ received[s] # <<>>

\* C3: once the child of a successful Start is gone, and with the caller
\* receiving from the sinks it supplied, every supplied sink is eventually
\* closed and both output relays terminate (as long as the program itself
\* lives); this needs no call of cmd.Wait.
C3_SinksEventuallyClosed ==
  (startRes = "ok" /\ ChildGone) ~>
    (~Running \/ \A s \in Streams : rpc[s] = "done" /\ (HasSink(s) => closeCount[s] = 1))

\* Both sinks were supplied, both are closed and both relays are done after
\* the child exited, and cmd.Wait has not been called.
C3_Witness ==
  /\ c.Stdout /\ c.Stderr /\ child = "exited" /\ wait = "no"
  /\ \A s \in Streams : rpc[s] = "done" /\ closeCount[s] = 1 /\ received[s] # <<>>

\* C4: with no sink supplied for a stream, every line the child wrote to it
\* has been written to the parent's stream, in order and each followed by a
\* line terminator, when the relay has ended, also when the caller called
\* cmd.Wait right after Start; cmd.Wait yields success for a child that
\* exited by itself, and no fault is raised.
C4_EchoesEveryLine ==
  /\ \A s \in Streams :
       (startRes = "ok" /\ ~HasSink(s) /\ rpc[s] = "done" /\ serr[s] # "ErrTooLong") =>
         echoed[s] = Terminated(LinesOf(written[s]))
  /\ (child = "exited" /\ wait \in {"ok", "err"}) => wait = "ok"
  /\ ~c.Stdin => Running

\* C5: the bytes written to the child's standard input are, in order, those
\* of the items sent; and once the caller has closed the source of a child
\* that reads to the end of its input (the context never canceled), the
\* child's input is closed with everything sent delivered, the child exits
\* and a cmd.Wait that was called returns.
C5_StdinDeliveredThenClosed ==
  /\ [](IsPrefix(inWritten, Concat(sent)) /\ IsPrefix(childIn, inWritten))
  /\ (startRes = "ok" /\ c.Stdin /\ srcClosed /\ prog.kind = "cat" /\ ~ctxCancels) ~>
       (~Running \/ (/\ pwClosed /\ inCloses = 1
                     /\ childIn = Concat(sent)
                     /\ child = "exited" /\ childEOF
                     /\ wait # "waiting"))

\* C6: the stdin relay closes the child's standard input at most once, and
\* only after the caller has closed the source and everything sent on it
\* has been written; a child never sees the end of its input before that.
C6_StdinClosedOnlyAfterSource ==
  /\ inCloses <= 1
  /\ inCloses = 1 => (srcClosed /\ ipc # "write" /\ inWritten = Concat(sent))
  /\ (c.Stdin /\ childEOF) => (srcClosed /\ inCloses = 1 /\ childIn = Concat(sent))
  /\ (ChildAlive /\ pwClosed) => inCloses = 1

\* The relay closed the input of a running "cat" child after two items, and
\* the child saw the end of its input after reading both.
C6_Witness ==
  /\ prog.kind = "cat" /\ Len(sent) = 2 /\ inCloses = 1
  /\ childEOF /\ childIn = Concat(sent)

\* C7: a failed Start returns a non-nil error, leaves no child running and
\* no relay task of that call alive.
C7_FailedStartLeavesNothing ==
  startRes = "error" =>
    /\ startErr # "nil" /\ child = "none"
    /\ ipc \in {"none", "done"}
    /\ \A s \in Streams : rpc[s] \in {"none", "done"}

\* C8: after the context is canceled (the child being one that would have
\* run to the end of its input otherwise) no relay task raises a fatal
\* fault and no sink is closed more than once.
C8_CancelShutsDownCleanly ==
  (cancelled /\ prog.kind = "cat") =>
    (Running /\ \A s \in Streams : closeCount[s] <= 1)

\* C9: a failed stdin.Write or stdin.Close raises a fatal fault at once; the
\* fault ends the program, so the relay writes and closes nothing more and
\* takes no further item; Start's returned error never changes after Start
\* has returned.
C9_StdinFailureIsFatal ==
  /\ [](wrRes = "err" <=> ~Running)
  /\ [][~Running => /\ fault' = fault /\ ipc' = ipc /\ sent' = sent
                    /\ inWritten' = inWritten /\ inCloses' = inCloses]_vars
  /\ [][startRes # "none" => startErr' = startErr]_vars

\* After a successful Start, a write of the second item failed when part
\* of it was in the pipe already, and the program is terminated.
C9_Witness ==
  /\ startRes = "ok" /\ wrRes = "err" /\ fault = "cannot write stdin"
  /\ ipc = "write" /\ Len(sent) = 2 /\ CurDone > 0

\* C10: an output relay never ends after a read error or an undecodable line
\* as it does at end of file: it ends only at end of file.
C10_ReadFailureIsFatal ==
  \A s \in Streams : rpc[s] = "done" => serr[s] = "EOF"

\* C11: Start returns without waiting for anything: as long as it has not
\* returned it can take its step, although the child has not run, no line
\* was received from a sink, nothing was sent on the Stdin channel, the
\* channel was not closed and cmd.Wait was not called.
C11_StartDoesNotWait ==
  (Running /\ startRes = "none") =>
    /\ ENABLED Start
    /\ child = "none" /\ wait = "no"
    /\ sent = <<>> /\ ~srcClosed
    /\ \A s \in Streams : received[s] = <<>> /\ ~sawClosed[s] /\ closeCount[s] = 0

\* Start has returned the handle of a running child, all three channels were
\* supplied and there are items to send, and the caller has touched none of
\* the channels.
C11_Witness ==
  /\ startRes = "ok" /\ child = "running" /\ wait = "no"
  /\ c.Stdin /\ c.Stdout /\ c.Stderr /\ toSend # <<>>
  /\ sent = <<>> /\ ~srcClosed
  /\ \A s \in Streams : received[s] = <<>> /\ rpc[s] = "scan"

\* C12: a relay that is handing a line to its sink is blocked: it reads and
\* splits nothing and does not end until the caller receives; it keeps that
\* line and its buffered bytes, the pipe loses no byte, and the caller's next
\* receive yields that line.  With a sink, every line the child wrote is
\* received, held by the relay or still ahead of it (while the relay's reads
\* have not failed): none is discarded.
C12_BlockingSendHoldsOneLine ==
  /\ [](\A s \in Streams :
          /\ rpc[s] = "send" =>
               /\ HasSink(s)
               /\ ~ENABLED RelayRead(s) /\ ~ENABLED RelayToken(s) /\ ~ENABLED RelayFinish(s)
               /\ Running => ENABLED CallerRecv(s)
          /\ (startRes = "ok" /\ HasSink(s) /\ serr[s] = "nil" /\ ~rdClosed[s]) =>
               LinesOf(written[s]) =
                 received[s] \o (IF rpc[s] = "send" THEN <<line[s]>> ELSE <<>>)
                             \o LinesOf(sbuf[s] \o pipe[s]))
  /\ [][\A s \in Streams :
          rpc[s] = "send" =>
            /\ line'[s] = line[s] /\ sbuf'[s] = sbuf[s] /\ IsPrefix(pipe[s], pipe'[s])
            /\ \/ rpc'[s] = "send" /\ received'[s] = received[s]
               \/ rpc'[s] = "scan" /\ received'[s] = Append(received[s], line[s])]_vars

\* The stdout relay is blocked on a line while the child, with more to
\* write, is blocked on the full pipe.
C12_Witness ==
  /\ rpc["stdout"] = "send" /\ Running
  /\ Len(pipe["stdout"]) = PipeCap
  /\ ChildAlive /\ Len(written["stdout"]) < Len(prog.out["stdout"])

\* The relay goroutines that exist (a relay that was never started has no
\* position).
RelayTasks ==
  (IF ipc # "none" THEN {"stdin"} ELSE {}) \cup {s \in Streams : rpc[s] # "none"}

\* C13: after a successful Start there is a relay for stdout and one for
\* stderr, with or without a sink, and a stdin relay exactly if c.Stdin was
\* supplied; never more than three.
C13_OneRelayPerStream ==
  /\ Cardinality(RelayTasks) <= 3
  /\ startRes = "ok" =>
       /\ Streams \subseteq RelayTasks
       /\ "stdin" \in RelayTasks <=> c.Stdin

\* Start succeeded with a Stdin channel and no sink: three relays exist.
C13_Witness ==
  /\ startRes = "ok" /\ c.Stdin /\ ~c.Stdout /\ ~c.Stderr
  /\ Cardinality(RelayTasks) = 3

\* C14: while one output relay is blocked in its send, the other one is not
\* held up by it: a line it hands over can be received, it has delivered
\* every line the child wrote to its stream when it has ended, and (the
\* caller never receiving from stdout) the stderr relay still ends and
\* closes its sink once the child is gone.
C14_RelaysIndependent ==
  /\ [](\A s, t \in Streams :
          (s # t /\ rpc[s] = "send") =>
            /\ (Running /\ rpc[t] = "send") => ENABLED CallerRecv(t)
            /\ (HasSink(t) /\ rpc[t] = "done") => received[t] = LinesOf(written[t]))
  /\ (startRes = "ok" /\ ChildGone) ~>
       (~Running \/ (rpc["stderr"] = "done" /\ (c.Stderr => closeCount["stderr"] = 1)))

\* The bytes the child has read are, in order, bytes the relay wrote, and
\* those are the bytes of the items sent, nothing added between two items and
\* nothing removed; a child that has seen the end of its input has read all
\* of them.
StdinVerbatim ==
  /\ IsPrefix(childIn, inWritten) /\ IsPrefix(inWritten, Concat(sent))
  /\ (c.Stdin /\ ipc \in {"range", "done"}) => inWritten = Concat(sent)
  /\ (c.Stdin /\ childEOF) => childIn = Concat(sent)

\* An item that is one line with its line terminator.
ItemIsLine(item) == item # <<>> /\ IndexNL(item) = Len(item)

\* C15 as amended: the child's input is the concatenation of the items sent,
\* nothing added or removed, so the child observes the lines of that
\* concatenation; they are as many as the items sent when every item is one
\* line with its terminator.
C15_StdinIsConcatenation ==
  /\ StdinVerbatim
  /\ (c.Stdin /\ childEOF) =>
       /\ LinesOf(childIn) = LinesOf(Concat(sent))
       /\ (\A i \in 1..Len(sent) : ItemIsLine(sent[i])) => Len(LinesOf(childIn)) = Len(sent)

\* A "cat" child has read two items, each a terminated line, to the end of
\* its input and observed two lines.
C15_Witness ==
  /\ prog.kind = "cat" /\ childEOF /\ Len(sent) = 2
  /\ \A i \in 1..Len(sent) : ItemIsLine(sent[i])
  /\ Len(LinesOf(childIn)) = 2

\* C15 as stated: the child's input is the concatenation of the items sent,
\* and the child observes as many lines as items were sent.
C15_LinesEqualItems ==
  /\ StdinVerbatim
  /\ (c.Stdin /\ childEOF) => Len(LinesOf(childIn)) = Len(sent)

\* The items a relay has produced so far: the lines received from the sink
\* and the one being handed over, or the lines written to the parent's
\* stream.
Produced(s) ==
  IF HasSink(s)
  THEN Terminated(received[s] \o (IF rpc[s] = "send" THEN <<line[s]>> ELSE <<>>))
  ELSE echoed[s]

\* C16: no item holds a line terminator; the items produced are, one for
\* one and in order, lines the child wrote (an empty line gives an empty
\* item); and when the relay has ended they are all of them, a last
\* fragment without terminator included, each followed by a line terminator
\* on the parent's stream when there is no sink.
C16_SplitsIntoLines ==
  \A s \in Streams :
    startRes = "ok" =>
      /\ \A i \in 1..Len(received[s]) : IndexNL(received[s][i]) = 0
      /\ IsPrefix(Produced(s), Terminated(LinesOf(written[s])))
      /\ rpc[s] = "done" => Produced(s) = Terminated(LinesOf(written[s]))

\* C17: whenever the caller called cmd.Wait, also before a relay had read
\* its stream to the end, a supplied sink that is closed (no line having
\* been too long for the scanner) has delivered every line the child wrote.
C17_WaitDoesNotCutDelivery ==
  \A s \in Streams :
    (startRes = "ok" /\ HasSink(s) /\ wait # "no"
       /\ SinkClosed(s) /\ serr[s] # "ErrTooLong") =>
      received[s] = LinesOf(written[s])

\* The caller of the README's example can go no further although cmd.Wait
\* has not returned: neither it nor any goroutine nor the child can take a
\* step.
ReadmeStuck == wait # "ok" /\ ~ENABLED ReadmeNext

\* Everything the caller sends fits into the buffer of the stdin pipe, and
\* its echo into that of the stdout pipe (the two have the same capacity).
InputFits == Len(Concat(sent \o toSend)) <= PipeCap

C19_FailedStartLeavesSinks ==
  startRes = "error" =>
    \A s \in Streams :
      /\ rpc[s] = "none"
      /\ received[s] = <<>> /\ closeCount[s] = 0 /\ ~sawClosed[s]
      /\ ~ENABLED CallerRecv(s) /\ ~ENABLED CallerRecvClosed(s)

\* Start failed with all three channels supplied, and the caller has since
\* closed the Stdin channel.
C19_Witness ==
  /\ startRes = "error" /\ c.Stdin /\ c.Stdout /\ c.Stderr
  /\ srcClosed

\* C20: after a successful Start, the stdin relay's close of the pipe, once
\* the caller has closed the source, succeeds and the relay terminates
\* without a fault, also when the child has exited or cmd.Wait has returned
\* before.
C20_LateCloseIsHarmless ==
  (startRes = "ok" /\ inCloses > 0) =>
    (wrRes = "ok" /\ ipc = "done" /\ fault = "none")

====
